---- MODULE Spec2Model ----
(***************************************************************************)
(* State-machine model of compute_setup.py: the configuration pipeline     *)
(* load_config -> build_compute_config -> validate_config ->               *)
(* encode_config_to_base64 -> create_compute -> set_default_driver, and    *)
(* the exception handlers of the __main__ block.                           *)
(*                                                                         *)
(* JSON values are tagged records.  A scalar is [k, s] with k one of       *)
(* "absent" (key not in the dict), "null", "str", "num"; the endpoint is   *)
(* [k, s] with s a sequence of characters, because str.startswith reads    *)
(* it character by character.  Containers are [k, items].                  *)
(***************************************************************************)
EXTENDS Integers, Sequences, FiniteSets, TLC

VARIABLES
    pc,           \* position of the run inside main / the __main__ block
    input,        \* what the config path holds: "missing", "malformed" or "json"
    cfg,          \* the RawConfig returned by load_config
    compute_cfg,  \* the ComputeConfig returned by build_compute_config
    exc,          \* the exception in flight, or NoExc
    warnings,     \* warnings printed by validate_config in this run
    org_id,       \* main's local org_id
    output_file,  \* main's local output_file
    b64,          \* main's local b64
    files,        \* the file system: path -> content (NoContent when missing)
    calls,        \* provisioning calls made through the dtlpy SDK, in order
    handler,      \* which except clause of the __main__ block ran
    runs,         \* number of process runs started so far
    wrote,        \* TRUE once this run has written the artifact
    history,      \* what every run that encoded was given and produced
    before        \* the file system as it was when this run started

vars == <<pc, input, cfg, compute_cfg, exc, warnings, org_id, output_file, b64,
          files, calls, handler, runs, wrote, history, before>>

(***************************************************************************)
(* Bounds of the model.                                                    *)
(***************************************************************************)
MaxRuns == 3        \* process runs in one behaviour
MaxPools == 2       \* length of a generated nodePools list
MaxTypes == 2       \* length of a generated dlTypes list
MaxPlugins == 2     \* length of a generated plugins list

(***************************************************************************)
(* JSON scalars and Python truthiness.                                     *)
(***************************************************************************)
Absent == [k |-> "absent", s |-> ""]
Null == [k |-> "null", s |-> ""]
Str(s) == [k |-> "str", s |-> s]
Num(s) == [k |-> "num", s |-> s]

\* bool(x) for a scalar; a key that is absent reads as None through dict.get
Truthy(x) == \/ x.k = "str" /\ x.s # ""
             \/ x.k = "num" /\ x.s # "0"

\* dict.get(key, default)
Get(x, d) == IF x.k = "absent" THEN d ELSE x

\* dict.get(key): None when the key is absent
GetNone(x) == IF x.k = "absent" THEN Null ELSE x

\* x is None
IsNone(x) == x.k = "null"

\* the endpoint, a string held as a sequence of characters
NoEndpoint == [k |-> "absent", s |-> <<>>]
Url(chars) == [k |-> "str", s |-> chars]
UrlTruthy(e) == e.k = "str" /\ e.s # <<>>

\* str.startswith(prefix)
startswith(s, prefix) ==
    /\ Len(s) >= Len(prefix)
    /\ SubSeq(s, 1, Len(prefix)) = prefix

Range(seq) == {seq[i] : i \in 1..Len(seq)}

\* containers: lists and dicts whose content is passed through untouched
NoContainer == [k |-> "absent", items |-> <<>>]
List(items) == [k |-> "list", items |-> items]
Dict(items) == [k |-> "dict", items |-> items]
ContainerTruthy(c) == c.k # "absent" /\ c.items # <<>>

\* metadata: any JSON value; a dict carries its serveAgentServiceType key
NoMetadata == [k |-> "absent", items |-> <<>>, serveAgentServiceType |-> Absent]
NullMetadata == [k |-> "null", items |-> <<>>, serveAgentServiceType |-> Absent]
DictMetadata(sast, others) ==
    [k |-> "dict", items |-> others, serveAgentServiceType |-> sast]
ListMetadata(items) == [k |-> "list", items |-> items, serveAgentServiceType |-> Absent]
TextMetadata(items) == [k |-> "str", items |-> items, serveAgentServiceType |-> Absent]
MetadataTruthy(m) ==
    \/ m.k = "dict" /\ (m.serveAgentServiceType.k # "absent" \/ m.items # <<>>)
    \/ m.k \in {"list", "str"} /\ m.items # <<>>

(***************************************************************************)
(* Exceptions.  type is the Python class; a ValueError of validate_config  *)
(* carries the rule group that raised it and the violations its message    *)
(* lists: items for field and plugin names, pools for the node pools.      *)
(***************************************************************************)
NoExc == [type |-> "none", at |-> "", group |-> "", items |-> <<>>, pools |-> <<>>]
Raise(type, group, items, pools) ==
    [type |-> type, at |-> "", group |-> group, items |-> items, pools |-> pools]
KeyError(key) == Raise("KeyError", "", <<key>>, <<>>)
ValueError(group, items, pools) == Raise("ValueError", group, items, pools)

\* result of a call: the exception it raised (NoExc when it returned),
\* the value it returned and the warnings it printed before either
Returned(value, warns) == [exc |-> NoExc, value |-> value, warnings |-> warns]
Raised(e, warns) == [exc |-> e, value |-> "none", warnings |-> warns]

(***************************************************************************)
(* build_compute_config.  Subscripts (cfg["cluster"], auth["token"], ...)  *)
(* raise KeyError at the first absent key in evaluation order; .get        *)
(* supplies the defaults.                                                  *)
(***************************************************************************)
build_first_missing(raw) ==
    IF raw.cluster.k = "absent" THEN "cluster"
    ELSE IF raw.authentication.k = "absent" THEN "authentication"
    ELSE IF raw.network.k = "absent" THEN "network"
    ELSE IF raw.authentication.token.k = "absent" THEN "token"
    ELSE IF raw.cluster.endpoint.k = "absent" THEN "endpoint"
    ELSE IF raw.cluster.kubernetesVersion.k = "absent" THEN "kubernetesVersion"
    ELSE IF raw.cluster.name.k = "absent" THEN "name"
    ELSE IF raw.nodePools.k = "absent" THEN "nodePools"
    ELSE IF raw.cluster.defaultNamespace.k = "absent" THEN "defaultNamespace"
    ELSE IF raw.cluster.provider.k = "absent" THEN "provider"
    ELSE ""

NoRegistry ==
    [k |-> "absent", domain |-> Absent, faasFolder |-> Absent, bootstrapFolder |-> Absent]

\* cfg.get("metadata") or {}
build_metadata(raw) ==
    IF MetadataTruthy(raw.metadata) THEN raw.metadata ELSE DictMetadata(Absent, <<>>)

build_document(raw) ==
    LET cluster == raw.cluster
        auth == raw.authentication
        \* cfg.get("registry") or {}: an absent or null registry has no keys
        registry == IF raw.registry.k = "dict" THEN raw.registry ELSE NoRegistry
        network == raw.network
    IN  [authentication |->
            [ca |-> Get(auth.ca, Str("")),
             token |-> auth.token],
         config |->
            [endpoint |-> cluster.endpoint,
             kubernetesVersion |-> cluster.kubernetesVersion,
             name |-> cluster.name,
             nodePools |-> raw.nodePools,
             metadata |-> build_metadata(raw),
             settings |-> [defaultNamespace |-> cluster.defaultNamespace],
             deploymentConfiguration |->
                [volumes |-> Get(raw.volumes, List(<<>>)),
                 serviceAccountName |-> Get(cluster.serviceAccountName, Str("faas")),
                 securityContext |-> Get(raw.securityContext, Dict(<<>>)),
                 registry |->
                    [domain |-> Get(registry.domain, Str("hub.dataloop.ai")),
                     faasFolder |-> Get(registry.faasFolder, Str("customerhub")),
                     bootstrapFolder |-> Get(registry.bootstrapFolder, Str("customerhub"))],
                 defaultResources |-> Get(raw.defaultResources, Dict(<<>>)),
                 internalRequestsUrl |-> GetNone(network.internalRequestsUrl),
                 environmentVariables |-> Get(network.environmentVariables, List(<<>>))],
             plugins |-> Get(raw.plugins, List(<<>>)),
             provider |-> cluster.provider]]

build_compute_config(raw) ==
    IF build_first_missing(raw) # ""
    THEN Raised(KeyError(build_first_missing(raw)), <<>>)
    ELSE Returned(build_document(raw), <<>>)

(***************************************************************************)
(* validate_config.  Each rule group collects its violations and raises    *)
(* one ValueError; the groups run one after the other.                     *)
(***************************************************************************)
PlaceholderOrgIds ==
    {"{{org-id}}", "<REPLACE: Your Dataloop Organization ID>", "YOUR_ORG_ID_HERE"}

allowed_service_types == {"ClusterIP", "LoadBalancer"}

mandatory_plugins == <<"monitoring", "scaler">>    \* in sorted() order

allowed_dl_types ==
    {"regular-xs", "regular-s", "regular-m", "regular-l",
     "highmem-xs", "highmem-s", "highmem-m", "highmem-l",
     "gpu-t4", "gpu-t4-m",
     "gpu-a100-s", "gpu-a100-4g", "gpu-a100-4g-m"}

\* cfg.get("organization", {}).get("orgId", "")
validate_org_id(raw) ==
    IF raw.organization.k = "absent" THEN Str("")
    ELSE Get(raw.organization.orgId, Str(""))

\* validate_missing as it would be if it stopped at the first missing value
validate_missing_first(raw, ccfg) ==
    LET oid == validate_org_id(raw)
    IN  IF ~Truthy(GetNone(ccfg.authentication.token)) THEN <<"authentication.token">>
        ELSE IF ~UrlTruthy(ccfg.config.endpoint) THEN <<"cluster.endpoint">>
        ELSE IF ~Truthy(oid) \/ (oid.k = "str" /\ oid.s \in PlaceholderOrgIds)
        THEN <<"organization.orgId">>
        ELSE <<>>

\* the list `missing` of the required-values group
validate_missing(raw, ccfg) ==
    LET auth == ccfg.authentication
        conf == ccfg.config
        oid == validate_org_id(raw)
    IN  (IF ~Truthy(GetNone(auth.token)) THEN <<"authentication.token">> ELSE <<>>)
        \o (IF ~UrlTruthy(conf.endpoint) THEN <<"cluster.endpoint">> ELSE <<>>)
        \o (IF ~Truthy(oid) \/ (oid.k = "str" /\ oid.s \in PlaceholderOrgIds)
            THEN <<"organization.orgId">> ELSE <<>>)

\* validate_endpoint_ok as it would be if it tested the scheme name alone
validate_endpoint_http_only(endpoint) ==
    startswith(endpoint, <<"h", "t", "t", "p">>)

validate_endpoint_ok(endpoint) ==
    \/ startswith(endpoint, <<"h", "t", "t", "p", ":", "/", "/">>)
    \/ startswith(endpoint, <<"h", "t", "t", "p", "s", ":", "/", "/">>)

\* the two print() warnings
validate_warnings(ccfg) ==
    (IF ~Truthy(GetNone(ccfg.authentication.ca))
        THEN <<"authentication.ca is empty">> ELSE <<>>)
    \o (IF ~ContainerTruthy(ccfg.config.deploymentConfiguration.volumes)
        THEN <<"No volumes defined">> ELSE <<>>)

\* "metadata" in cfg and cfg.get("metadata") is not None
\*     and not isinstance(cfg.get("metadata"), dict)
validate_metadata_bad(raw) ==
    /\ raw.metadata.k # "absent"
    /\ raw.metadata.k # "null"
    /\ raw.metadata.k # "dict"

\* (cfg.get("metadata") or {}).get("serveAgentServiceType")
validate_service_type(raw) ==
    IF MetadataTruthy(raw.metadata)
    THEN GetNone(raw.metadata.serveAgentServiceType)
    ELSE Null

\* validate_service_type_bad as it would be if it tested the type alone
validate_service_type_any_string(raw) ==
    /\ ~IsNone(validate_service_type(raw))
    /\ validate_service_type(raw).k # "str"

validate_service_type_bad(raw) ==
    LET serve_agent_service_type == validate_service_type(raw)
    IN  /\ ~IsNone(serve_agent_service_type)
        /\ ~(/\ serve_agent_service_type.k = "str"
              /\ serve_agent_service_type.s \in allowed_service_types)

\* {p.get("name") for p in plugins if isinstance(p, dict)}, strings only
validate_plugin_names(raw) ==
    LET plugins == Get(raw.plugins, List(<<>>)).items
    IN  {plugins[i].name.s : i \in {j \in 1..Len(plugins) :
            plugins[j].isDict /\ plugins[j].name.k = "str"}}

\* validate_missing_plugins as it would be if one mandatory plugin sufficed
validate_missing_plugins_any(raw) ==
    IF validate_plugin_names(raw) \cap Range(mandatory_plugins) = {}
    THEN mandatory_plugins
    ELSE <<>>

\* sorted(mandatory_plugins - plugin_names)
validate_missing_plugins(raw) ==
    LET plugin_names == validate_plugin_names(raw)
        Missing(name) == name \notin plugin_names
    IN  SelectSeq(mandatory_plugins, Missing)

\* f"nodePools[{idx}]", idx counted from 0
IndexName(idx) ==
    <<"nodePools[0]", "nodePools[1]", "nodePools[2]", "nodePools[3]">>[idx + 1]

\* [t for t in dl_types if not isinstance(t, str) or t not in allowed_dl_types]
validate_invalid_types(dl_types) ==
    LET Invalid(t) == t.k # "str" \/ t.s \notin allowed_dl_types
    IN  SelectSeq(dl_types, Invalid)

\* one pass of the for loop over enumerate(nodePools)
validate_pool(pool, idx) ==
    LET pool_name == IF Truthy(GetNone(pool.name)) THEN pool.name.s ELSE IndexName(idx)
        dl_types == Get(pool.dlTypes, List(<<>>))
    IN  IF ~pool.isDict THEN <<>>
        ELSE IF dl_types.k # "list"
        THEN <<[pool |-> pool_name, what |-> "dlTypes must be an array", invalid |-> <<>>]>>
        ELSE IF validate_invalid_types(dl_types.items) # <<>>
        THEN <<[pool |-> pool_name, what |-> "invalid dlTypes",
                invalid |-> validate_invalid_types(dl_types.items)]>>
        ELSE <<>>

\* the loop as it would be if it stopped at the first offending pool
RECURSIVE validate_pools_first(_, _)
validate_pools_first(pools, i) ==
    IF i > Len(pools) THEN <<>>
    ELSE IF validate_pool(pools[i], i - 1) # <<>> THEN validate_pool(pools[i], i - 1)
    ELSE validate_pools_first(pools, i + 1)

RECURSIVE validate_pools_from(_, _)
validate_pools_from(pools, i) ==
    IF i > Len(pools) THEN <<>>
    ELSE validate_pool(pools[i], i - 1) \o validate_pools_from(pools, i + 1)

\* the list invalid_dl_types_by_pool
validate_invalid_pools(raw) ==
    validate_pools_from(Get(raw.nodePools, List(<<>>)).items, 1)

\* validate_config as it would be if it only warned
validate_config_warn_only(raw, ccfg) == Returned("none", validate_warnings(ccfg))

\* validate_config as it would be with the plugins check moved to the front
validate_config_plugins_first(raw, ccfg) ==
    IF validate_missing_plugins(raw) # <<>>
    THEN Raised(ValueError("plugins", validate_missing_plugins(raw), <<>>), <<>>)
    ELSE IF validate_missing(raw, ccfg) # <<>>
    THEN Raised(ValueError("required", validate_missing(raw, ccfg), <<>>), <<>>)
    ELSE IF ~validate_endpoint_ok(ccfg.config.endpoint.s)
    THEN Raised(ValueError("endpoint", <<"cluster.endpoint">>, <<>>), <<>>)
    ELSE IF validate_metadata_bad(raw)
    THEN Raised(ValueError("metadata", <<"metadata">>, <<>>), validate_warnings(ccfg))
    ELSE IF validate_service_type_bad(raw)
    THEN Raised(ValueError("serveAgentServiceType",
                           <<validate_service_type(raw).s>>, <<>>),
                validate_warnings(ccfg))
    ELSE IF validate_invalid_pools(raw) # <<>>
    THEN Raised(ValueError("dlTypes", <<>>, validate_invalid_pools(raw)),
                validate_warnings(ccfg))
    ELSE Returned("none", validate_warnings(ccfg))

validate_config(raw, ccfg) ==
    IF validate_missing(raw, ccfg) # <<>>
    THEN Raised(ValueError("required", validate_missing(raw, ccfg), <<>>), <<>>)
    ELSE IF ~validate_endpoint_ok(ccfg.config.endpoint.s)
    THEN Raised(ValueError("endpoint", <<"cluster.endpoint">>, <<>>), <<>>)
    ELSE IF validate_metadata_bad(raw)
    THEN Raised(ValueError("metadata", <<"metadata">>, <<>>), validate_warnings(ccfg))
    ELSE IF validate_service_type_bad(raw)
    THEN Raised(ValueError("serveAgentServiceType",
                           <<validate_service_type(raw).s>>, <<>>),
                validate_warnings(ccfg))
    ELSE IF validate_missing_plugins(raw) # <<>>
    THEN Raised(ValueError("plugins", validate_missing_plugins(raw), <<>>),
                validate_warnings(ccfg))
    ELSE IF validate_invalid_pools(raw) # <<>>
    THEN Raised(ValueError("dlTypes", <<>>, validate_invalid_pools(raw)),
                validate_warnings(ccfg))
    ELSE Returned("none", validate_warnings(ccfg))

(***************************************************************************)
(* The RawConfig documents the model feeds to the pipeline: a valid        *)
(* document and its variations, one family per rule of the pipeline.       *)
(***************************************************************************)
SeqsUpTo(S, n) == UNION {[1..m -> S] : m \in 0..n}

HttpsHost == <<"h", "t", "t", "p", "s", ":", "/", "/", "k", "8">>
HttpHost == <<"h", "t", "t", "p", ":", "/", "/", "k", "8">>
FtpHost == <<"f", "t", "p", ":", "/", "/", "k", "8">>

EndpointTexts ==
    {<<>>, HttpsHost, HttpHost, FtpHost,
     <<"h", "t", "t", "p", ":", "/", "/">>,
     <<"h", "t", "t", "p", "s", ":", "/", "/">>,
     <<"h", "t", "t", "p", ":", "/">>,
     <<"h", "t", "t", "p", "s", ":", "/", "k">>,
     <<"H", "T", "T", "P", ":", "/", "/", "k">>,
     <<"x", "h", "t", "t", "p", ":", "/", "/", "k">>,
     <<"k", "8">>}

Endpoints == {NoEndpoint} \cup {Url(t) : t \in EndpointTexts}

Tokens == {Absent, Null, Str(""), Str("tok")}

OrgIds == {Absent, Null, Str(""), Str("org-1")} \cup {Str(p) : p \in PlaceholderOrgIds}

NoOrganization == [k |-> "absent", orgId |-> Absent]
Organization(orgId) == [k |-> "dict", orgId |-> orgId]
Organizations == {NoOrganization} \cup {Organization(o) : o \in OrgIds}

Plugin(name) == [isDict |-> TRUE, name |-> name]
NotAPlugin == [isDict |-> FALSE, name |-> Absent]
PluginValues ==
    {NotAPlugin, Plugin(Absent), Plugin(Str("monitoring")), Plugin(Str("scaler")),
     Plugin(Str("logging"))}
PluginLists == {NoContainer} \cup {List(l) : l \in SeqsUpTo(PluginValues, MaxPlugins)}
BothPlugins == List(<<Plugin(Str("scaler")), Plugin(Str("monitoring"))>>)

NoDlTypes == [k |-> "absent", items |-> <<>>]
Pool(name, dlTypes) == [isDict |-> TRUE, name |-> name, dlTypes |-> dlTypes]
NotAPool == [isDict |-> FALSE, name |-> Absent, dlTypes |-> NoDlTypes]
DlTypeElems == {Str("regular-s"), Str("gpu-t4"), Str("gpu-h100"), Num("5")}
DlTypesValues ==
    {NoDlTypes, [k |-> "null", items |-> <<>>], [k |-> "str", items |-> <<Str("gpu-t4")>>]}
    \cup {List(l) : l \in SeqsUpTo(DlTypeElems, MaxTypes)}
GoodPool == Pool(Str("pool-a"), List(<<Str("regular-s"), Str("gpu-t4")>>))
BadPool == Pool(Str("pool-b"), List(<<Str("regular-s"), Str("gpu-h100")>>))
ScalarPool == Pool(Str("pool-c"), [k |-> "str", items |-> <<Str("gpu-t4")>>])
UnnamedBadPool == Pool(Absent, List(<<Num("5")>>))
EmptyNamePool == Pool(Str(""), [k |-> "null", items |-> <<>>])
KeyPools == {GoodPool, BadPool, ScalarPool, UnnamedBadPool, EmptyNamePool, NotAPool}
PoolLists ==
    {List(<<Pool(Str("pool-a"), d)>>) : d \in DlTypesValues}
    \cup {List(l) : l \in SeqsUpTo(KeyPools, MaxPools)}

Metadatas ==
    {NoMetadata, NullMetadata,
     DictMetadata(Absent, <<>>), DictMetadata(Absent, <<"team">>),
     DictMetadata(Null, <<>>), DictMetadata(Str("ClusterIP"), <<>>),
     DictMetadata(Str("LoadBalancer"), <<"team">>), DictMetadata(Str("NodePort"), <<>>),
     DictMetadata(Str(""), <<>>), DictMetadata(Str("clusterip"), <<>>),
     DictMetadata(Num("1"), <<>>),
     ListMetadata(<<>>), ListMetadata(<<"ClusterIP">>),
     TextMetadata(<<>>), TextMetadata(<<"ClusterIP">>)}

Registry(domain, faasFolder, bootstrapFolder) ==
    [k |-> "dict", domain |-> domain, faasFolder |-> faasFolder,
     bootstrapFolder |-> bootstrapFolder]
Registries ==
    {NoRegistry, [NoRegistry EXCEPT !.k = "null"]}
    \cup {Registry(d, f, b) : d \in {Absent, Str("registry.local")},
                              f \in {Absent, Str("faas-images")},
                              b \in {Absent, Str("boot-images")}}

NoNetwork ==
    [k |-> "absent", internalRequestsUrl |-> Absent, environmentVariables |-> NoContainer]
Network(url, env) ==
    [k |-> "dict", internalRequestsUrl |-> url, environmentVariables |-> env]
Networks ==
    {NoNetwork}
    \cup {Network(u, e) : u \in {Absent, Str("http://gw")},
                          e \in {NoContainer, List(<<"HTTP_PROXY">>)}}

NoOutput == [k |-> "absent", base64ConfigFile |-> Absent]
Output(path) == [k |-> "dict", base64ConfigFile |-> path]

BaseConfig ==
    [organization |-> Organization(Str("org-1")),
     cluster |->
        [k |-> "dict", endpoint |-> Url(HttpsHost), kubernetesVersion |-> Str("1.29"),
         name |-> Str("cluster-1"), defaultNamespace |-> Str("faas"),
         provider |-> Str("gke"), serviceAccountName |-> Absent],
     authentication |-> [k |-> "dict", token |-> Str("tok"), ca |-> Str("CA")],
     registry |-> NoRegistry,
     network |-> Network(Absent, NoContainer),
     nodePools |-> List(<<GoodPool>>),
     plugins |-> BothPlugins,
     metadata |-> NoMetadata,
     volumes |-> List(<<"vol-1">>),
     securityContext |-> NoContainer,
     defaultResources |-> NoContainer,
     output |-> NoOutput]

\* token, endpoint and organization in every combination
RequiredConfigs ==
    {[BaseConfig EXCEPT !.authentication.token = t, !.cluster.endpoint = e,
                        !.organization = o] :
        t \in Tokens, e \in Endpoints, o \in Organizations}

\* one required key or section missing
MissingKeyConfigs ==
    {[BaseConfig EXCEPT !.cluster.k = "absent"],
     [BaseConfig EXCEPT !.authentication.k = "absent"],
     [BaseConfig EXCEPT !.cluster.kubernetesVersion = Absent],
     [BaseConfig EXCEPT !.cluster.name = Absent],
     [BaseConfig EXCEPT !.cluster.defaultNamespace = Absent],
     [BaseConfig EXCEPT !.cluster.provider = Absent],
     [BaseConfig EXCEPT !.nodePools = NoContainer],
     [BaseConfig EXCEPT !.nodePools = NoContainer, !.cluster.provider = Absent],
     [BaseConfig EXCEPT !.authentication.token = Absent, !.cluster.k = "absent"]}

\* the defaultable scalar fields and their parent sections
DefaultedConfigs ==
    {[BaseConfig EXCEPT !.authentication.ca = ca, !.registry = r, !.network = n,
                        !.cluster.serviceAccountName = sa] :
        ca \in {Absent, Str(""), Str("CA")}, r \in Registries, n \in Networks,
        sa \in {Absent, Str("runner")}}

\* the defaultable container fields
ContainerConfigs ==
    {[BaseConfig EXCEPT !.volumes = v, !.securityContext = sc, !.defaultResources = dr,
                        !.plugins = p, !.metadata = m] :
        v \in {NoContainer, List(<<>>), List(<<"vol-1">>)},
        sc \in {NoContainer, Dict(<<"runAsUser">>)},
        dr \in {NoContainer, Dict(<<"cpu">>)},
        p \in {NoContainer, BothPlugins},
        m \in {NoMetadata, DictMetadata(Str("ClusterIP"), <<>>)}}

MetadataConfigs == {[BaseConfig EXCEPT !.metadata = m] : m \in Metadatas}

PluginConfigs == {[BaseConfig EXCEPT !.plugins = p] : p \in PluginLists}

PoolConfigs == {[BaseConfig EXCEPT !.nodePools = p] : p \in PoolLists}

\* every rule group good or bad, independently of the others
MixedConfigs ==
    {[BaseConfig EXCEPT !.authentication.token = t, !.cluster.endpoint = e,
                        !.organization.orgId = o, !.authentication.ca = ca,
                        !.volumes = v, !.metadata = m, !.plugins = p, !.nodePools = np] :
        t \in {Str("tok"), Str("")},
        e \in {Url(HttpHost), Url(FtpHost), Url(<<>>)},
        o \in {Str("org-1"), Str("{{org-id}}")},
        ca \in {Absent, Str("CA")},
        v \in {NoContainer, List(<<"vol-1">>)},
        m \in {NoMetadata, ListMetadata(<<"ClusterIP">>),
               DictMetadata(Str("NodePort"), <<>>), DictMetadata(Str("ClusterIP"), <<>>)},
        p \in {BothPlugins, List(<<Plugin(Str("monitoring"))>>), NoContainer},
        np \in {List(<<GoodPool>>), List(<<BadPool, GoodPool, ScalarPool>>)}}

Configs ==
    RequiredConfigs \cup MissingKeyConfigs \cup DefaultedConfigs \cup ContainerConfigs
    \cup MetadataConfigs \cup PluginConfigs \cup PoolConfigs \cup MixedConfigs

(***************************************************************************)
(* encode_config_to_base64.  json.dumps writes the document as a sequence  *)
(* of lexemes, keys in insertion order; every lexeme is one byte of the    *)
(* text (its place in Lexemes), and base64.b64encode turns each three      *)
(* bytes into four 6-bit digits, padding the last group with "=" (64).     *)
(***************************************************************************)
Lexemes ==
    <<"{", "}", "[", "]", "null", "quote",
      "authentication", "ca", "token", "config", "endpoint", "kubernetesVersion",
      "name", "nodePools", "dlTypes", "metadata", "serveAgentServiceType", "settings",
      "defaultNamespace", "deploymentConfiguration", "volumes", "serviceAccountName",
      "securityContext", "registry", "domain", "faasFolder", "bootstrapFolder",
      "defaultResources", "internalRequestsUrl", "environmentVariables", "plugins",
      "provider",
      "", "CA", "tok", "1.29", "cluster-1", "faas", "gke", "hub.dataloop.ai",
      "customerhub", "vol-1", "pool-a", "pool-b", "pool-c", "regular-s", "gpu-t4",
      "gpu-h100", "5", "monitoring", "scaler", "logging", "ClusterIP", "LoadBalancer",
      "team", "registry.local", "faas-images", "boot-images", "http://gw",
      "HTTP_PROXY", "runner", "runAsUser", "cpu",
      "NodePort", "clusterip", "1",
      "h", "t", "p", "s", ":", "/", "k", "8", "f", "x", "H", "T", "P">>

Byte(lexeme) == CHOOSE i \in 1..Len(Lexemes) : Lexemes[i] = lexeme

RECURSIVE Flatten(_)
Flatten(seqs) == IF seqs = <<>> THEN <<>> ELSE Head(seqs) \o Flatten(Tail(seqs))

Key(name) == <<"quote", name, "quote">>
Text(x) ==
    IF x.k = "str" THEN <<"quote", x.s, "quote">>
    ELSE IF x.k = "num" THEN <<x.s>>
    ELSE <<"null">>
Texts(items) == Flatten([i \in 1..Len(items) |-> <<"quote", items[i], "quote">>])
Container(c) ==
    IF c.k = "list" THEN <<"[">> \o Texts(c.items) \o <<"]">>
    ELSE <<"{">> \o Texts(c.items) \o <<"}">>

dumps_dl_types(d) ==
    IF d.k = "list"
    THEN <<"[">> \o Flatten([i \in 1..Len(d.items) |-> Text(d.items[i])]) \o <<"]">>
    ELSE IF d.k = "str" THEN Text(d.items[1])
    ELSE <<"null">>

dumps_pool(pool) ==
    IF ~pool.isDict THEN <<"null">>
    ELSE <<"{">>
         \o (IF pool.name.k = "absent" THEN <<>> ELSE Key("name") \o Text(pool.name))
         \o (IF pool.dlTypes.k = "absent" THEN <<>>
             ELSE Key("dlTypes") \o dumps_dl_types(pool.dlTypes))
         \o <<"}">>

dumps_plugin(plugin) ==
    IF ~plugin.isDict THEN <<"null">>
    ELSE <<"{">>
         \o (IF plugin.name.k = "absent" THEN <<>> ELSE Key("name") \o Text(plugin.name))
         \o <<"}">>

dumps_metadata(m) ==
    IF m.k = "dict"
    THEN <<"{">>
         \o (IF m.serveAgentServiceType.k = "absent" THEN <<>>
             ELSE Key("serveAgentServiceType") \o Text(m.serveAgentServiceType))
         \o Texts(m.items) \o <<"}">>
    ELSE <<"[">> \o Texts(m.items) \o <<"]">>

\* json.dumps(compute_cfg, indent=2)
json_dumps(ccfg) ==
    LET conf == ccfg.config
        dep == conf.deploymentConfiguration
    IN  <<"{">>
        \o Key("authentication") \o <<"{">>
            \o Key("ca") \o Text(ccfg.authentication.ca)
            \o Key("token") \o Text(ccfg.authentication.token) \o <<"}">>
        \o Key("config") \o <<"{">>
            \o Key("endpoint") \o <<"quote">> \o conf.endpoint.s \o <<"quote">>
            \o Key("kubernetesVersion") \o Text(conf.kubernetesVersion)
            \o Key("name") \o Text(conf.name)
            \o Key("nodePools") \o <<"[">>
                \o Flatten([i \in 1..Len(conf.nodePools.items) |->
                                dumps_pool(conf.nodePools.items[i])]) \o <<"]">>
            \o Key("metadata") \o dumps_metadata(conf.metadata)
            \o Key("settings") \o <<"{">>
                \o Key("defaultNamespace") \o Text(conf.settings.defaultNamespace)
                \o <<"}">>
            \o Key("deploymentConfiguration") \o <<"{">>
                \o Key("volumes") \o Container(dep.volumes)
                \o Key("serviceAccountName") \o Text(dep.serviceAccountName)
                \o Key("securityContext") \o Container(dep.securityContext)
                \o Key("registry") \o <<"{">>
                    \o Key("domain") \o Text(dep.registry.domain)
                    \o Key("faasFolder") \o Text(dep.registry.faasFolder)
                    \o Key("bootstrapFolder") \o Text(dep.registry.bootstrapFolder)
                    \o <<"}">>
                \o Key("defaultResources") \o Container(dep.defaultResources)
                \o Key("internalRequestsUrl") \o Text(dep.internalRequestsUrl)
                \o Key("environmentVariables") \o Container(dep.environmentVariables)
                \o <<"}">>
            \o Key("plugins") \o <<"[">>
                \o Flatten([i \in 1..Len(conf.plugins.items) |->
                                dumps_plugin(conf.plugins.items[i])]) \o <<"]">>
            \o Key("provider") \o Text(conf.provider)
            \o <<"}">>
        \o <<"}">>

\* str.encode("utf-8")
encode_utf8(text) == [i \in 1..Len(text) |-> Byte(text[i])]

Pad == 64

RECURSIVE b64encode(_)
b64encode(bytes) ==
    IF bytes = <<>> THEN <<>>
    ELSE IF Len(bytes) = 1
    THEN <<bytes[1] \div 4, (bytes[1] % 4) * 16, Pad, Pad>>
    ELSE IF Len(bytes) = 2
    THEN <<bytes[1] \div 4, (bytes[1] % 4) * 16 + bytes[2] \div 16,
           (bytes[2] % 16) * 4, Pad>>
    ELSE <<bytes[1] \div 4, (bytes[1] % 4) * 16 + bytes[2] \div 16,
           (bytes[2] % 16) * 4 + bytes[3] \div 64, bytes[3] % 64>>
         \o b64encode(SubSeq(bytes, 4, Len(bytes)))

\* the text encode_config_to_base64 returns and writes
encode_text(ccfg) == b64encode(encode_utf8(json_dumps(ccfg)))

\* write_file as it would be if the file were opened in append mode
write_file_append(fs, path, text) ==
    [fs EXCEPT ![path] = [exists |-> TRUE, text |-> fs[path].text \o text]]

\* open(output_file, "w") followed by f.write(b64)
write_file(fs, path, text) == [fs EXCEPT ![path] = [exists |-> TRUE, text |-> text]]

encode_config_to_base64(ccfg, path, fs) ==
    [b64 |-> encode_text(ccfg), files |-> write_file(fs, path, encode_text(ccfg))]

(***************************************************************************)
(* The __main__ block: which except clause catches an exception.  Clauses  *)
(* are tried in order and match by isinstance.                             *)
(***************************************************************************)
\* the classes an exception type is an instance of
Bases(type) ==
    IF type = "JSONDecodeError" THEN {"JSONDecodeError", "ValueError", "Exception"}
    ELSE IF type = "FileNotFoundError" THEN {"FileNotFoundError", "OSError", "Exception"}
    ELSE IF type = "KeyError" THEN {"KeyError", "LookupError", "Exception"}
    ELSE {type, "Exception"}

\* the clauses as they would be with ValueError tried before JSONDecodeError
except_clauses_value_error_first ==
    <<[class |-> "FileNotFoundError", handler |-> "config file not found", reraise |-> FALSE],
      [class |-> "ValueError", handler |-> "configuration error", reraise |-> FALSE],
      [class |-> "JSONDecodeError", handler |-> "invalid JSON", reraise |-> FALSE],
      [class |-> "Exception", handler |-> "error", reraise |-> TRUE]>>

except_clauses ==
    <<[class |-> "FileNotFoundError", handler |-> "config file not found", reraise |-> FALSE],
      [class |-> "JSONDecodeError", handler |-> "invalid JSON", reraise |-> FALSE],
      [class |-> "ValueError", handler |-> "configuration error", reraise |-> FALSE],
      [class |-> "Exception", handler |-> "error", reraise |-> TRUE]>>

select_clause(type) ==
    LET first == CHOOSE i \in 1..Len(except_clauses) :
                    /\ except_clauses[i].class \in Bases(type)
                    /\ \A j \in 1..(i - 1) : except_clauses[j].class \notin Bases(type)
    IN  except_clauses[first]

(***************************************************************************)
(* The inputs of a process run and the state before the first run.         *)
(***************************************************************************)
DEFAULT_OUTPUT_FILE == "base64_config.txt"
Paths == {DEFAULT_OUTPUT_FILE, "out.txt"}

NoFile == [exists |-> FALSE, text |-> <<>>]

\* locals of main that are not assigned yet
Unset == [k |-> "unset"]

InputFiles == {"missing", "malformed", "json"}

\* the documents a config file of a whole run may hold
MainDocuments ==
        {BaseConfig,
         [BaseConfig EXCEPT !.output = Output(Str("out.txt"))],
         [BaseConfig EXCEPT !.authentication.ca = Absent, !.volumes = NoContainer,
                            !.nodePools = List(<<>>)],
         [BaseConfig EXCEPT !.authentication.token = Str("")],
         [BaseConfig EXCEPT !.cluster.endpoint = Url(FtpHost)],
         [BaseConfig EXCEPT !.organization.orgId = Str("{{org-id}}")],
         [BaseConfig EXCEPT !.metadata = ListMetadata(<<"ClusterIP">>)],
         [BaseConfig EXCEPT !.metadata = DictMetadata(Str("NodePort"), <<>>)],
         [BaseConfig EXCEPT !.plugins = List(<<Plugin(Str("monitoring"))>>)],
         [BaseConfig EXCEPT !.nodePools = List(<<ScalarPool>>)],
         [BaseConfig EXCEPT !.nodePools = List(<<BadPool>>),
                            !.output = Output(Str("out.txt"))],
         [BaseConfig EXCEPT !.organization = NoOrganization],
         [BaseConfig EXCEPT !.organization.orgId = Absent],
         [BaseConfig EXCEPT !.nodePools = NoContainer],
         [BaseConfig EXCEPT !.authentication.token = Absent],
         [BaseConfig EXCEPT !.network = NoNetwork]}

Init ==
    /\ pc = "idle"
    /\ input = "missing"
    /\ cfg = Unset
    /\ compute_cfg = Unset
    /\ exc = NoExc
    /\ warnings = <<>>
    /\ org_id = Absent
    /\ output_file = DEFAULT_OUTPUT_FILE
    /\ b64 = <<>>
    /\ files = [p \in Paths |-> NoFile]
    /\ calls = <<>>
    /\ handler = ""
    /\ runs = 0
    /\ wrote = FALSE
    /\ history = {}
    /\ before = [p \in Paths |-> NoFile]

(***************************************************************************)
(* One process run: python compute_setup.py --config <path>.               *)
(* Locals of main that are not assigned yet are Unset; the code never      *)
(* reads them before it assigns them.                                      *)
(***************************************************************************)
Stopped == {"idle", "done", "exit 1", "reraised"}

\* the operator starts the script on some config path
Start ==
    /\ pc \in Stopped
    /\ runs < MaxRuns
    /\ \E file \in InputFiles : input' = file
    /\ runs' = runs + 1
    /\ pc' = "validate_dtlpy_version"
    /\ cfg' = Unset
    /\ compute_cfg' = Unset
    /\ exc' = NoExc
    /\ warnings' = <<>>
    /\ org_id' = Absent
    /\ output_file' = DEFAULT_OUTPUT_FILE
    /\ b64' = <<>>
    /\ calls' = <<>>
    /\ handler' = ""
    /\ wrote' = FALSE
    /\ before' = files
    /\ UNCHANGED <<files, history>>

\* raise e out of main, from the step named by pc
Throw(e) ==
    /\ exc' = [e EXCEPT !.at = pc]
    /\ pc' = "raised"

\* validate_dtlpy_version(): the installed SDK is recent enough, or not
ValidateVersion ==
    /\ pc = "validate_dtlpy_version"
    /\ \E recent \in BOOLEAN :
          IF recent
          THEN pc' = "load_config" /\ UNCHANGED exc
          ELSE Throw(Raise("RuntimeError", "", <<>>, <<>>))
    /\ UNCHANGED <<input, cfg, compute_cfg, warnings, org_id, output_file, b64, files,
                   calls, handler, runs, wrote, history, before>>

\* load_config(config_path), the path holding `file`, a JSON file the document doc
load_config(file, doc) ==
    IF file = "missing" THEN Raised(Raise("FileNotFoundError", "", <<>>, <<>>), <<>>)
    ELSE IF file = "malformed" THEN Raised(Raise("JSONDecodeError", "", <<>>, <<>>), <<>>)
    ELSE Returned(doc, <<>>)

\* cfg = load_config(config_path)
LoadConfig ==
    /\ pc = "load_config"
    /\ \E doc \in MainDocuments :
          IF load_config(input, doc).exc # NoExc
          THEN Throw(load_config(input, doc).exc) /\ UNCHANGED cfg
          ELSE /\ cfg' = load_config(input, doc).value
               /\ pc' = "organization"
               /\ UNCHANGED exc
    /\ UNCHANGED <<input, compute_cfg, warnings, org_id, output_file, b64, files, calls,
                   handler, runs, wrote, history, before>>

\* cfg.get("output", {}).get("base64ConfigFile", "base64_config.txt")
main_output_file(raw) ==
    IF raw.output.k = "absent" THEN DEFAULT_OUTPUT_FILE
    ELSE Get(raw.output.base64ConfigFile, Str(DEFAULT_OUTPUT_FILE)).s

\* org = cfg["organization"]; org_id = org["orgId"]; ...; dl.setenv(dataloop_env)
ReadOrganization ==
    /\ pc = "organization"
    /\ IF cfg.organization.k = "absent"
       THEN Throw(KeyError("organization")) /\ UNCHANGED <<org_id, output_file>>
       ELSE IF cfg.organization.orgId.k = "absent"
       THEN Throw(KeyError("orgId")) /\ UNCHANGED <<org_id, output_file>>
       ELSE /\ org_id' = cfg.organization.orgId
            /\ output_file' = main_output_file(cfg)
            /\ pc' = "build_compute_config"
            /\ UNCHANGED exc
    /\ UNCHANGED <<input, cfg, compute_cfg, warnings, b64, files, calls, handler, runs,
                   wrote, history, before>>

\* compute_cfg = build_compute_config(cfg)
Build ==
    /\ pc = "build_compute_config"
    /\ IF build_compute_config(cfg).exc # NoExc
       THEN Throw(build_compute_config(cfg).exc) /\ UNCHANGED compute_cfg
       ELSE /\ compute_cfg' = build_compute_config(cfg).value
            /\ pc' = "validate_config"
            /\ UNCHANGED exc
    /\ UNCHANGED <<input, cfg, warnings, org_id, output_file, b64, files, calls, handler,
                   runs, wrote, history, before>>

\* validate_config(cfg, compute_cfg)
Validate ==
    /\ pc = "validate_config"
    /\ warnings' = validate_config(cfg, compute_cfg).warnings
    /\ IF validate_config(cfg, compute_cfg).exc # NoExc
       THEN Throw(validate_config(cfg, compute_cfg).exc)
       ELSE pc' = "encode_config_to_base64" /\ UNCHANGED exc
    /\ UNCHANGED <<input, cfg, compute_cfg, org_id, output_file, b64, files, calls,
                   handler, runs, wrote, history, before>>

\* b64 = encode_config_to_base64(compute_cfg, output_file)
Encode ==
    /\ pc = "encode_config_to_base64"
    /\ b64' = encode_config_to_base64(compute_cfg, output_file, files).b64
    /\ files' = encode_config_to_base64(compute_cfg, output_file, files).files
    /\ wrote' = TRUE
    /\ history' = history \cup
          {[cfg |-> cfg, compute_cfg |-> compute_cfg, output_file |-> output_file,
            b64 |-> encode_config_to_base64(compute_cfg, output_file, files).b64]}
    /\ pc' = "create_compute"
    /\ UNCHANGED <<input, cfg, compute_cfg, exc, warnings, org_id, output_file, calls,
                   handler, runs, before>>

\* compute = create_compute(output_file, org_id): the SDK call returns or raises
CreateCompute ==
    /\ pc = "create_compute"
    /\ calls' = Append(calls, [op |-> "create_from_config_file",
                               config_file_path |-> output_file, org_id |-> org_id])
    /\ \E created \in BOOLEAN :
          IF created
          THEN pc' = "set_default_driver" /\ UNCHANGED exc
          ELSE Throw(Raise("SDKError", "", <<>>, <<>>))
    /\ UNCHANGED <<input, cfg, compute_cfg, warnings, org_id, output_file, b64, files,
                   handler, runs, wrote, history, before>>

\* set_default_driver(compute_name, org_id, update_existing_services=False)
SetDefaultDriver ==
    /\ pc = "set_default_driver"
    /\ calls' = Append(calls, [op |-> "set_default", config_file_path |-> "",
                               org_id |-> org_id])
    /\ \E set \in BOOLEAN :
          IF set
          THEN pc' = "done" /\ UNCHANGED exc
          ELSE Throw(Raise("SDKError", "", <<>>, <<>>))
    /\ UNCHANGED <<input, cfg, compute_cfg, warnings, org_id, output_file, b64, files,
                   handler, runs, wrote, history, before>>

\* the try / except of the __main__ block
Handle ==
    /\ pc = "raised"
    /\ handler' = select_clause(exc.type).handler
    /\ pc' = IF select_clause(exc.type).reraise THEN "reraised" ELSE "exit 1"
    /\ UNCHANGED <<input, cfg, compute_cfg, exc, warnings, org_id, output_file, b64,
                   files, calls, runs, wrote, history, before>>

Next ==
    \/ Start
    \/ ValidateVersion
    \/ LoadConfig
    \/ ReadOrganization
    \/ Build
    \/ Validate
    \/ Encode
    \/ CreateCompute
    \/ SetDefaultDriver
    \/ Handle

Spec == Init /\ [][Next]_vars

(***************************************************************************)
(* The two pure stages applied to every document of Configs, as a caller   *)
(* of build_compute_config and validate_config applies them.               *)
(***************************************************************************)
InitStages ==
    /\ pc = "build_compute_config"
    /\ cfg \in Configs
    /\ input = "json"
    /\ compute_cfg = Unset
    /\ exc = NoExc
    /\ warnings = <<>>
    /\ org_id = Absent
    /\ output_file = DEFAULT_OUTPUT_FILE
    /\ b64 = <<>>
    /\ files = [p \in Paths |-> NoFile]
    /\ calls = <<>>
    /\ handler = ""
    /\ runs = 0
    /\ wrote = FALSE
    /\ history = {}
    /\ before = [p \in Paths |-> NoFile]

NextStages ==
    \/ Build
    \/ Validate

SpecStages == InitStages /\ [][NextStages]_vars

(***************************************************************************)
(* What the rules say of a document, stated on the document itself.        *)
(***************************************************************************)
BeforeEncode ==
    {"validate_dtlpy_version", "load_config", "organization", "build_compute_config",
     "validate_config"}

\* build_compute_config has returned in this run
BuildReturned ==
    \/ pc \in {"validate_config", "encode_config_to_base64", "create_compute",
               "set_default_driver", "done"}
    \/ exc.at \in {"validate_config", "create_compute", "set_default_driver"}

\* validate_config has returned without error in this run
ValidateReturned ==
    \/ pc \in {"encode_config_to_base64", "create_compute", "set_default_driver", "done"}
    \/ exc.at \in {"create_compute", "set_default_driver"}

\* validate_config has raised in this run
ValidateRaised == exc.at = "validate_config"

ValidateActed == ValidateReturned \/ ValidateRaised

\* the required values that are missing
RequiredMissing ==
    {f \in {"authentication.token"} : compute_cfg.authentication.token \in {Null, Str("")}}
    \cup {f \in {"cluster.endpoint"} : compute_cfg.config.endpoint.s = <<>>}
    \cup {f \in {"organization.orgId"} :
            \/ cfg.organization.k = "absent"
            \/ cfg.organization.orgId \in {Absent, Null, Str("")}
            \/ cfg.organization.orgId \in
                 {Str("{{org-id}}"), Str("<REPLACE: Your Dataloop Organization ID>"),
                  Str("YOUR_ORG_ID_HERE")}}

\* the endpoint begins with http:// or https://
HasScheme(e) ==
    \/ /\ Len(e) >= 7
       /\ e[1] = "h" /\ e[2] = "t" /\ e[3] = "t" /\ e[4] = "p"
       /\ e[5] = ":" /\ e[6] = "/" /\ e[7] = "/"
    \/ /\ Len(e) >= 8
       /\ e[1] = "h" /\ e[2] = "t" /\ e[3] = "t" /\ e[4] = "p" /\ e[5] = "s"
       /\ e[6] = ":" /\ e[7] = "/" /\ e[8] = "/"

EndpointBad == ~HasScheme(compute_cfg.config.endpoint.s)

MetadataWrongShape == cfg.metadata.k \notin {"absent", "null", "dict"}

ServiceTypeGiven ==
    /\ cfg.metadata.k = "dict"
    /\ cfg.metadata.serveAgentServiceType.k \notin {"absent", "null"}

ServiceTypeAllowed ==
    cfg.metadata.serveAgentServiceType \in {Str("ClusterIP"), Str("LoadBalancer")}

ServiceTypeBad == ServiceTypeGiven /\ ~ServiceTypeAllowed

PluginsGiven == IF cfg.plugins.k = "absent" THEN <<>> ELSE cfg.plugins.items

PluginsMissing ==
    {"monitoring", "scaler"}
    \ {p.name.s : p \in {q \in Range(PluginsGiven) : q.isDict /\ q.name.k = "str"}}

PoolsGiven == IF cfg.nodePools.k = "absent" THEN <<>> ELSE cfg.nodePools.items

NotArrayShaped(pool) == pool.dlTypes.k \notin {"absent", "list"}

InCatalog(t) ==
    t \in {Str(n) : n \in
        {"regular-xs", "regular-s", "regular-m", "regular-l", "highmem-xs", "highmem-s",
         "highmem-m", "highmem-l", "gpu-t4", "gpu-t4-m", "gpu-a100-s", "gpu-a100-4g",
         "gpu-a100-4g-m"}}

OffendingPool(pool) ==
    /\ pool.isDict
    /\ \/ NotArrayShaped(pool)
       \/ pool.dlTypes.k = "list" /\ \E t \in Range(pool.dlTypes.items) : ~InCatalog(t)

\* the places of the offending pools, in the order of the list
OffendingPools ==
    LET Offends(i) == OffendingPool(PoolsGiven[i])
    IN  SelectSeq([i \in 1..Len(PoolsGiven) |-> i], Offends)

PoolLabel(i) ==
    IF PoolsGiven[i].name.k = "str" /\ PoolsGiven[i].name.s # ""
    THEN PoolsGiven[i].name.s
    ELSE IndexName(i - 1)

\* the entry of the error describes pool i and all its invalid entries
DescribesPool(entry, i) ==
    LET pool == PoolsGiven[i]
        Bad(t) == ~InCatalog(t)
    IN  /\ entry.pool = PoolLabel(i)
        /\ IF NotArrayShaped(pool)
           THEN entry.what = "dlTypes must be an array"
           ELSE /\ entry.what = "invalid dlTypes"
                /\ entry.invalid = SelectSeq(pool.dlTypes.items, Bad)

NamesEveryOffendingPool ==
    /\ Len(exc.pools) = Len(OffendingPools)
    /\ \A n \in 1..Len(OffendingPools) : DescribesPool(exc.pools[n], OffendingPools[n])

\* C2: validate_config raises the required-values error exactly when the
\* transformed token is empty, the transformed endpoint is empty, or orgId is
\* absent, empty or a placeholder; the one error lists every missing field.
C2_RequiredValues ==
    ValidateActed =>
        /\ (exc.group = "required") <=> (RequiredMissing # {})
        /\ exc.group = "required" =>
              /\ exc.type = "ValueError"
              /\ Range(exc.items) = RequiredMissing
              /\ Len(exc.items) = Cardinality(RequiredMissing)

C2_PlaceholderRejected ==
    /\ ValidateRaised
    /\ exc.group = "required"
    /\ cfg.organization.orgId = Str("{{org-id}}")
    /\ cfg.authentication.token = Str("tok")
    /\ HasScheme(cfg.cluster.endpoint.s)
    /\ exc.items = <<"organization.orgId">>

\* C3: once the earlier rule groups have passed, validate_config raises the
\* dlTypes error exactly when some pool's dlTypes is not array-shaped or holds
\* an entry that is not a catalog string, and the one error names every
\* offending pool with its invalid entries.
C3_DlTypes ==
    (ValidateActed /\ (exc = NoExc \/ exc.group = "dlTypes")) =>
        /\ (exc.group = "dlTypes") <=> (OffendingPools # <<>>)
        /\ exc.group = "dlTypes" => exc.type = "ValueError" /\ NamesEveryOffendingPool

C3_TwoPoolsNamed ==
    /\ ValidateRaised
    /\ exc.group = "dlTypes"
    /\ Len(exc.pools) = 2
    /\ exc.pools[1].pool # exc.pools[2].pool

\* C4 as claimed: when validate_config returns, metadata is absent or
\* object-shaped and serveAgentServiceType, when the key is present, is
\* ClusterIP or LoadBalancer.
C4_AsClaimed ==
    ValidateReturned =>
        /\ cfg.metadata.k \in {"absent", "dict"}
        /\ cfg.metadata.serveAgentServiceType.k # "absent" => ServiceTypeAllowed

\* C4 amended: when validate_config returns, metadata is absent, null or
\* object-shaped and serveAgentServiceType, when present and not null, is
\* ClusterIP or LoadBalancer; any other scalar there raises, and an omitted
\* or null key never does.
C4_Metadata ==
    /\ ValidateReturned =>
          /\ cfg.metadata.k \in {"absent", "null", "dict"}
          /\ ServiceTypeGiven => ServiceTypeAllowed
    /\ ValidateActed =>
          /\ (MetadataWrongShape \/ ServiceTypeBad) => exc.type = "ValueError"
          /\ exc.group = "metadata" => MetadataWrongShape
          /\ exc.group = "serveAgentServiceType" => ServiceTypeBad

C4_NullAccepted ==
    /\ ValidateReturned
    /\ \/ cfg.metadata.k = "null"
       \/ cfg.metadata.k = "dict" /\ cfg.metadata.serveAgentServiceType.k = "null"

C6_EndpointScheme ==
    ValidateActed =>
        /\ ValidateReturned =>
              compute_cfg.config.endpoint.s # <<>> /\ ~EndpointBad
        /\ EndpointBad => ValidateRaised /\ exc.type = "ValueError"
        /\ (EndpointBad /\ RequiredMissing = {}) => exc.group = "endpoint"
        /\ ~EndpointBad => exc.group # "endpoint"

C6_FtpRejected ==
    /\ ValidateRaised
    /\ exc.group = "endpoint"
    /\ cfg.cluster.endpoint = Url(FtpHost)

\* build_compute_config has been called in this run
BuildActed == BuildReturned \/ exc.at = "build_compute_config"

\* the document has every field the transformer requires
RequiredFieldsPresent ==
    /\ cfg.cluster.k = "dict"
    /\ cfg.cluster.endpoint.k # "absent"
    /\ cfg.cluster.kubernetesVersion.k # "absent"
    /\ cfg.cluster.name.k # "absent"
    /\ cfg.cluster.defaultNamespace.k # "absent"
    /\ cfg.cluster.provider.k # "absent"
    /\ cfg.authentication.k = "dict"
    /\ cfg.authentication.token.k # "absent"
    /\ cfg.nodePools.k # "absent"

Given(x, default) == IF x.k = "absent" THEN default ELSE x

RegistryKey(x, default) ==
    IF cfg.registry.k = "dict" /\ x.k # "absent" THEN x ELSE default

NetworkKey(x, default) ==
    IF cfg.network.k = "dict" /\ x.k # "absent" THEN x ELSE default

\* every defaultable field holds the value given, or else its default
DefaultsApplied ==
    LET dep == compute_cfg.config.deploymentConfiguration
    IN  /\ compute_cfg.authentication.ca = Given(cfg.authentication.ca, Str(""))
        /\ dep.registry.domain = RegistryKey(cfg.registry.domain, Str("hub.dataloop.ai"))
        /\ dep.registry.faasFolder = RegistryKey(cfg.registry.faasFolder, Str("customerhub"))
        /\ dep.registry.bootstrapFolder =
              RegistryKey(cfg.registry.bootstrapFolder, Str("customerhub"))
        /\ dep.serviceAccountName = Given(cfg.cluster.serviceAccountName, Str("faas"))
        /\ dep.volumes = Given(cfg.volumes, List(<<>>))
        /\ dep.securityContext = Given(cfg.securityContext, Dict(<<>>))
        /\ dep.defaultResources = Given(cfg.defaultResources, Dict(<<>>))
        /\ compute_cfg.config.plugins = Given(cfg.plugins, List(<<>>))
        /\ compute_cfg.config.metadata =
              (IF MetadataTruthy(cfg.metadata) THEN cfg.metadata
               ELSE DictMetadata(Absent, <<>>))
        /\ dep.environmentVariables =
              NetworkKey(cfg.network.environmentVariables, List(<<>>))
        /\ dep.internalRequestsUrl = NetworkKey(cfg.network.internalRequestsUrl, Null)

\* C7: for a document that has all required fields, build_compute_config
\* raises no error whichever defaultable fields or parent sections (network
\* among them) are absent, and every such field is the value given or else
\* its default.
C7_Defaulting ==
    (BuildActed /\ RequiredFieldsPresent) =>
        /\ exc.at # "build_compute_config"
        /\ DefaultsApplied

\* the first rule group, in the order of the rules, that the document violates
FirstViolated ==
    IF RequiredMissing # {} THEN "required"
    ELSE IF EndpointBad THEN "endpoint"
    ELSE IF MetadataWrongShape THEN "metadata"
    ELSE IF ServiceTypeBad THEN "serveAgentServiceType"
    ELSE IF PluginsMissing # {} THEN "plugins"
    ELSE IF OffendingPools # <<>> THEN "dlTypes"
    ELSE ""

WarningsDue ==
    {w \in {"authentication.ca is empty"} :
        compute_cfg.authentication.ca \in {Null, Str("")}}
    \cup {w \in {"No volumes defined"} :
        compute_cfg.config.deploymentConfiguration.volumes.items = <<>>}

\* the error carries every violation of its own group and none of another
CarriesOwnGroup ==
    /\ exc.group = "required" => Range(exc.items) = RequiredMissing /\ exc.pools = <<>>
    /\ exc.group = "endpoint" => exc.items = <<"cluster.endpoint">> /\ exc.pools = <<>>
    /\ exc.group = "metadata" => exc.items = <<"metadata">> /\ exc.pools = <<>>
    /\ exc.group = "serveAgentServiceType" =>
          exc.items = <<cfg.metadata.serveAgentServiceType.s>> /\ exc.pools = <<>>
    /\ exc.group = "plugins" => Range(exc.items) = PluginsMissing /\ exc.pools = <<>>
    /\ exc.group = "dlTypes" => exc.items = <<>> /\ NamesEveryOffendingPool

\* C10: validate_config evaluates the rule groups in the order required
\* values, endpoint scheme, warnings, metadata shape, serveAgentServiceType,
\* mandatory plugins, dlTypes; it raises exactly the error of the earliest
\* violated group, carrying every violation of that group and none of a
\* later one, and the warnings neither raise nor stop the later groups.
C10_GroupOrder ==
    ValidateActed =>
        /\ exc.group = FirstViolated
        /\ (FirstViolated = "") <=> ValidateReturned
        /\ ValidateRaised => exc.type = "ValueError" /\ CarriesOwnGroup
        /\ FirstViolated \notin {"required", "endpoint"} =>
              Range(warnings) = WarningsDue

C10_EarliestOfSeveral ==
    /\ ValidateRaised
    /\ exc.group = "serveAgentServiceType"
    /\ Len(warnings) = 2
    /\ PluginsMissing # {}
    /\ OffendingPools # <<>>

(***************************************************************************)
(* Whole runs of the script.                                               *)
(***************************************************************************)
\* load_config has returned the document of the config path in this run
Loaded ==
    /\ input = "json"
    /\ pc \notin {"idle", "validate_dtlpy_version", "load_config"}
    /\ exc.at \notin {"validate_dtlpy_version", "load_config"}

\* the keys main and build_compute_config subscript that the document lacks
MissingKeys ==
    {key \in {"organization"} : cfg.organization.k = "absent"}
    \cup {key \in {"orgId"} :
            cfg.organization.k = "dict" /\ cfg.organization.orgId.k = "absent"}
    \cup {key \in {"cluster"} : cfg.cluster.k = "absent"}
    \cup {key \in {"authentication"} : cfg.authentication.k = "absent"}
    \cup {key \in {"network"} : cfg.network.k = "absent"}
    \cup {key \in {"token"} :
            cfg.authentication.k = "dict" /\ cfg.authentication.token.k = "absent"}
    \cup {key \in {"endpoint"} :
            cfg.cluster.k = "dict" /\ cfg.cluster.endpoint.k = "absent"}
    \cup {key \in {"kubernetesVersion"} :
            cfg.cluster.k = "dict" /\ cfg.cluster.kubernetesVersion.k = "absent"}
    \cup {key \in {"name"} : cfg.cluster.k = "dict" /\ cfg.cluster.name.k = "absent"}
    \cup {key \in {"defaultNamespace"} :
            cfg.cluster.k = "dict" /\ cfg.cluster.defaultNamespace.k = "absent"}
    \cup {key \in {"provider"} :
            cfg.cluster.k = "dict" /\ cfg.cluster.provider.k = "absent"}
    \cup {key \in {"nodePools"} : cfg.nodePools.k = "absent"}

\* the document passes the transformer and every rule of the validator
Accepted == Loaded /\ MissingKeys = {} /\ FirstViolated = ""

\* C1: the write of the artifact and the provisioning calls happen only
\* after build_compute_config and validate_config have returned without
\* error; a run that fails while loading, transforming or validating writes
\* nothing, leaves every earlier artifact as it was, and every artifact that
\* exists was written for an accepted document.
C1_WriteOnlyAfterValidation ==
    /\ (wrote \/ calls # <<>>) => Accepted /\ wrote
    /\ ~wrote => files = before
    /\ wrote => \A p \in Paths \ {output_file} : files[p] = before[p]
    /\ exc.at \in BeforeEncode => ~wrote /\ calls = <<>> /\ files = before
    /\ \A p \in Paths : files[p].exists =>
          \E h \in history :
              /\ h.output_file = p
              /\ files[p].text = h.b64
              /\ build_compute_config(h.cfg).exc = NoExc
              /\ validate_config(h.cfg, h.compute_cfg).exc = NoExc

C1_RejectedRunLeavesArtifact ==
    /\ pc = "exit 1"
    /\ exc.at = "validate_config"
    /\ before[output_file].exists
    /\ files = before
    /\ ~wrote

\* base64.b64decode, the inverse of the encoding
RECURSIVE b64decode(_)
b64decode(digits) ==
    IF digits = <<>> THEN <<>>
    ELSE LET a == digits[1]
             b == digits[2]
             c == digits[3]
             d == digits[4]
             rest == b64decode(SubSeq(digits, 5, Len(digits)))
         IN  IF c = 64 THEN <<a * 4 + b \div 16>>
             ELSE IF d = 64 THEN <<a * 4 + b \div 16, (b % 16) * 16 + c \div 4>>
             ELSE <<a * 4 + b \div 16, (b % 16) * 16 + c \div 4, (c % 4) * 64 + d>>
                  \o rest

\* C8: runs over the same document produce the same ComputeConfig and the
\* same encoded text, and after a run has encoded, the artifact holds exactly
\* the encoding of that run's ComputeConfig, whatever earlier runs wrote.
C8_IdempotentLastWriterWins ==
    /\ \A g, h \in history :
          g.cfg = h.cfg => g.compute_cfg = h.compute_cfg /\ g.b64 = h.b64
    /\ wrote =>
          /\ files[output_file].exists
          /\ files[output_file].text = b64
          /\ Len(files[output_file].text) % 4 = 0
          /\ b64decode(files[output_file].text) = encode_utf8(json_dumps(compute_cfg))
          /\ \E h \in history : h.cfg = cfg /\ h.compute_cfg = compute_cfg /\ h.b64 = b64

C8_LongerArtifactOverwritten ==
    /\ wrote
    /\ before[output_file].exists
    /\ Len(before[output_file].text) > Len(b64)
    /\ files[output_file].text = b64

\* the run has ended in one of the except clauses
Failed == pc \in {"exit 1", "reraised"}

\* the document violates a rule of the validator
RuleViolated == Loaded /\ MissingKeys = {} /\ FirstViolated # ""

\* some pool's dlTypes is not array-shaped
DlTypesNotArray ==
    Loaded /\ \E i \in 1..Len(PoolsGiven) :
                 PoolsGiven[i].isDict /\ NotArrayShaped(PoolsGiven[i])

====
